---- MODULE Spec2Model ----
(***************************************************************************)
(* Umbrella clustering, cluster correspondence and the scene they run on   *)
(* (gaussian_scene.py, umbrella_tracker.py, the tick and edit handlers of  *)
(* gui.py).                                                                *)
(*                                                                         *)
(* Representation.  Python floats are held as integers:                    *)
(*   - a length (x, y, a waypoint coordinate) is held in half world units: *)
(*     the model value 21 is the coordinate 10.5;                          *)
(*   - a variance is held doubled as well: the model value 1 is 0.5;       *)
(*   - an amplitude is held as is (1 is 1.0);                              *)
(*   - a grid spacing is held in tenths of a world unit (10 is 1.0).       *)
(* A Python dict is a sequence of entries in insertion order; a Python     *)
(* list is a sequence; list indices are 1-based here (0-based in Python).  *)
(***************************************************************************)
EXTENDS Integers, Sequences, FiniteSets, TLC

\* ------------------------------------------------------------------ bounds
MaxSources == 2
MaxTicks == 2
MaxTrackSources == 3
MaxClusterSources == 3
MaxAddSources == 3
MaxSampleSources == 2
MaxFieldSources == 2
MaxPathLen == 3
MaxPathTicks == 3

\* ------------------------------------------------------- drawn input sets
Xs == {20, 22}
Ys == {20}
DockCounts == {1, 2}
DockXs == {22}
DockAmps == {1}
DockVars == {4}
DockKernels == {"Gaussian"}
AddVars == {-4, 0, 4}
SampleXs == {0, 3}
SampleYs == {0}
SampleKinds == {<<1, 1>>, <<1, 4>>, <<2, 1>>, <<2, 4>>}
SampleKernels == {"Gaussian", "Mexican Hat"}
SampleGrids == {<<2, 1>>}
FieldXs == {0, 20}
FieldYs == {0, 20}
FieldKinds == {<<1, 4>>}
FieldGrids == {<<5, 5, 1>>, <<10, 10, 10>>, <<50, 50, 10>>}
FieldDirs == {<<1, 0>>, <<-1, 0>>, <<0, 1>>, <<0, -1>>, <<0, 0>>}
TrackKinds == {<<1, 4>>, <<2, 4>>, <<2, 1>>}
ClusterKinds == {<<1, 1>>, <<1, 4>>, <<2, 1>>, <<2, 4>>}
ScenarioCounts == {1}
ScenarioAmps == {1}
ScenarioVars == {40}
ScenarioStarts == {21}
ScenarioMerges == {22}
ScenarioSplits == {23}
IoOutcomes == {"ok", "makedirs_fail", "write_fail"}
PathXs == {20, 22}
PathClickXs == {20, 22}
PathKinds == {<<1, 4>>}
PathCounts == {1}
DrawnKinds == {<<1, 4>>, <<2, 1>>}
DrawnCounts == {1, 2}
NoiseKinds ==
  {"None", "Salt", "Pepper", "Salt and Pepper", "Gaussian (White)",
   "Gaussian blobs", "Poisson", "Speckle", "Uniform", "Laplace", "Perlin"}
NoiseAmounts == {0, 1, 4}
NoiseSeeds == {1, 2, 3}

\* ------------------------------------------------------ program constants
path_speed == 1
PathThreshold == 1

Micro == 10^6

\* floor(10^6 * exp(-d2 / (4*v))) for a squared distance d2 (in squared half
\* units) and a doubled variance v: math.exp(-dist2 / (2.0 * vars_[j])) in
\* fixed point.  With the amplitudes used here the comparison of line 58
\* decides exactly as the floating-point one does.
ExpTable ==
  (<<0, 1>> :> 1000000) @@ (<<1, 1>> :> 778800) @@ (<<4, 1>> :> 367879) @@
  (<<9, 1>> :> 105399) @@ (<<16, 1>> :> 18315) @@ (<<25, 1>> :> 1930) @@
  (<<36, 1>> :> 123) @@
  (<<0, 4>> :> 1000000) @@ (<<1, 4>> :> 939413) @@ (<<4, 4>> :> 778800) @@
  (<<9, 4>> :> 569782) @@ (<<16, 4>> :> 367879) @@ (<<25, 4>> :> 209611) @@
  (<<36, 4>> :> 105399) @@
  (<<0, 40>> :> 1000000) @@ (<<1, 40>> :> 993769) @@ (<<4, 40>> :> 975309) @@
  (<<9, 40>> :> 945302) @@ (<<16, 40>> :> 904837) @@ (<<25, 40>> :> 855345) @@
  (<<36, 40>> :> 798516)

ExpMicro(dist2, var) == ExpTable[<<dist2, var>>]

\* ------------------------------------------------------------- clustering
\* Dominated with the variance of source i in place of vars_[j]
Dominated_own_var(gs, i, j) ==
  LET dx == gs[i].x - gs[j].x
      dy == gs[i].y - gs[j].y
      dist2 == dx * dx + dy * dy
  IN gs[i].amp * Micro <= gs[j].amp * ExpMicro(dist2, gs[i].var)

\* amps[i] <= amps[j] * exp(-dist2 / (2 * vars_[j]))
Dominated(gs, i, j) ==
  LET dx == gs[i].x - gs[j].x
      dy == gs[i].y - gs[j].y
      dist2 == dx * dx + dy * dy
  IN gs[i].amp * Micro <= gs[j].amp * ExpMicro(dist2, gs[j].var)

\* find(i) with its path halving; returns the root and the rewritten parent
RECURSIVE find(_, _)
find(parent, i) ==
  IF parent[i] = i
    THEN [parent |-> parent, root |-> i]
    ELSE LET p1 == [parent EXCEPT ![i] = parent[parent[i]]]
         IN find(p1, p1[i])

union(parent, i, j) ==
  LET fi == find(parent, i)
      fj == find(fi.parent, j)
  IN IF fi.root # fj.root
       THEN [fj.parent EXCEPT ![fi.root] = fj.root]
       ELSE fj.parent

\* MergeLoop visiting only the pairs with i < j
RECURSIVE MergeLoop_upper(_, _, _)
MergeLoop_upper(gs, parent, k) ==
  LET n == Len(gs)
      i == (k \div n) + 1
      j == (k % n) + 1
  IN IF k >= n * n THEN parent
     ELSE IF i < j /\ Dominated(gs, i, j)
            THEN MergeLoop_upper(gs, union(parent, i, j), k + 1)
            ELSE MergeLoop_upper(gs, parent, k + 1)

\* the double loop "for i in range(n): for j in range(n)", pair number k
RECURSIVE MergeLoop(_, _, _)
MergeLoop(gs, parent, k) ==
  LET n == Len(gs)
      i == (k \div n) + 1
      j == (k % n) + 1
  IN IF k >= n * n THEN parent
     ELSE IF i # j /\ Dominated(gs, i, j)
            THEN MergeLoop(gs, union(parent, i, j), k + 1)
            ELSE MergeLoop(gs, parent, k + 1)

\* SetDefaultAppend overwriting the member list: clusters[root_id] = [v]
SetDefaultAppend_overwrite(clusters, root_id, v) ==
  IF \E k \in 1..Len(clusters) : clusters[k].root = root_id
    THEN [k \in 1..Len(clusters) |->
            IF clusters[k].root = root_id
              THEN [clusters[k] EXCEPT !.members = <<v>>]
              ELSE clusters[k]]
    ELSE Append(clusters, [root |-> root_id, members |-> <<v>>])

\* clusters.setdefault(root_id, []).append(v)
SetDefaultAppend(clusters, root_id, v) ==
  IF \E k \in 1..Len(clusters) : clusters[k].root = root_id
    THEN [k \in 1..Len(clusters) |->
            IF clusters[k].root = root_id
              THEN [clusters[k] EXCEPT !.members = Append(@, v)]
              ELSE clusters[k]]
    ELSE Append(clusters, [root |-> root_id, members |-> <<v>>])

\* RootLabel keying a cluster by the root's list index
RootLabel_index(gs, root_idx) == root_idx

\* root_id = ids[root_idx]: a cluster is keyed by the id of its root source
RootLabel(gs, root_idx) == gs[root_idx].id

\* the grouping loop "for idx in range(n)"
RECURSIVE GroupLoop(_, _, _, _)
GroupLoop(gs, parent, idx, clusters) ==
  IF idx > Len(gs) THEN clusters
  ELSE LET f == find(parent, idx)
       IN GroupLoop(gs, f.parent, idx + 1,
                    SetDefaultAppend(clusters, RootLabel(gs, f.root), gs[idx].id))

umbrella_clusters_with_roots(gs) ==
  IF Len(gs) = 0 THEN <<>>
  ELSE GroupLoop(gs, MergeLoop(gs, [i \in 1..Len(gs) |-> i], 0), 1, <<>>)

\* --------------------------------------------------------- correspondence
SeqToSet(s) == {s[i] : i \in 1..Len(s)}

Keys(clusters) == [k \in 1..Len(clusters) |-> clusters[k].root]

\* M[i][j] = 1 iff set(prev_clusters[r_prev]) & set(curr_clusters[r_curr])
correspondence_matrix_with_roots(prev_clusters, curr_clusters) ==
  [M |-> [i \in 1..Len(prev_clusters) |->
            [j \in 1..Len(curr_clusters) |->
               IF SeqToSet(prev_clusters[i].members)
                    \cap SeqToSet(curr_clusters[j].members) # {}
                 THEN 1 ELSE 0]],
   prev_roots |-> Keys(prev_clusters),
   curr_roots |-> Keys(curr_clusters)]

\* BirthEvent stamped with time 0 instead of the time of the tick
BirthEvent_unstamped(r, time) ==
  [time |-> 0, type |-> "birth", target |-> <<r>>, id |-> r,
   sources |-> <<>>]

\* the event appended for a new root when a previous clustering exists
BirthEvent(r, time) ==
  [time |-> time, type |-> "birth", target |-> <<r>>, id |-> r,
   sources |-> <<>>]

\* the event appended for a column of M with more than one 1
MergeEvent(curr_root, merged_sources, time) ==
  [time |-> time, type |-> "merge", target |-> <<curr_root>>,
   sources |-> merged_sources]

\* the event appended for every root on the first frame of a scene
FirstBirthEvent(id, time) ==
  [type |-> "birth", root |-> id, time |-> time, id |-> id]

\* Contributing without the "== 1" test: every previous root contributes
Contributing_all(M, j) == [i \in 1..Len(M) |-> i]

\* np.where(M[:, j] == 1)[0], as 1-based row numbers in increasing order
Contributing(M, j) ==
  SelectSeq([i \in 1..Len(M) |-> i], LAMBDA i : M[i][j] = 1)

\* the loop "for j, curr_root in enumerate(curr_roots)" from column j on
RECURSIVE MergeScan(_, _, _, _, _)
MergeScan(M, prev_roots, curr_roots, time, j) ==
  IF j > Len(curr_roots) THEN <<>>
  ELSE LET contributing == Contributing(M, j)
           merged_sources ==
             [k \in 1..Len(contributing) |-> prev_roots[contributing[k]]]
           rest == MergeScan(M, prev_roots, curr_roots, time, j + 1)
       IN IF Len(contributing) > 1
            THEN <<MergeEvent(curr_roots[j], merged_sources, time)>> \o rest
            ELSE rest

\* detect_events_from_correspondence_matrix taking a root for new when its
\* column of M is empty, instead of when its id is no previous root
detect_events_by_overlap(M, prev_roots, curr_roots, time) ==
  LET new_roots ==
        SelectSeq(curr_roots,
                  LAMBDA r : \A j \in 1..Len(curr_roots) :
                               curr_roots[j] = r => Len(Contributing(M, j)) = 0)
      birth_events ==
        [k \in 1..Len(new_roots) |-> BirthEvent(new_roots[k], time)]
  IN [events |-> birth_events
                   \o MergeScan(M, prev_roots, curr_roots, time, 1),
      births |-> new_roots]

\* detect_events_from_correspondence_matrix with the two root lists swapped
\* in the birth test: a previous root that is no current root is "born"
detect_events_of_vanished(M, prev_roots, curr_roots, time) ==
  LET new_roots ==
        SelectSeq(prev_roots, LAMBDA r : r \notin SeqToSet(curr_roots))
      birth_events ==
        [k \in 1..Len(new_roots) |-> BirthEvent(new_roots[k], time)]
  IN [events |-> birth_events
                   \o MergeScan(M, prev_roots, curr_roots, time, 1),
      births |-> new_roots]

detect_events_from_correspondence_matrix(M, prev_roots, curr_roots, time) ==
  LET new_roots ==
        SelectSeq(curr_roots, LAMBDA r : r \notin SeqToSet(prev_roots))
      birth_events ==
        [k \in 1..Len(new_roots) |-> BirthEvent(new_roots[k], time)]
  IN [events |-> birth_events
                   \o MergeScan(M, prev_roots, curr_roots, time, 1),
      births |-> new_roots]

\* FirstFrameEvents recording the births without appending the events
FirstFrameEvents_none(clusters_dict, timestep) == <<>>

\* the else branch of update_umbrella_tracking: first frame = all births
FirstFrameEvents(clusters_dict, timestep) ==
  [k \in 1..Len(clusters_dict) |->
     FirstBirthEvent(clusters_dict[k].root, timestep)]

NoPrev == [present |-> FALSE, clusters |-> <<>>]

\* StorePrev without the assignment
StorePrev_skip(scene, clusters_dict) == scene

\* scene._prev_clusters = clusters_dict, reached only when nothing raised
StorePrev(scene, clusters_dict) ==
  [scene EXCEPT !.prev_clusters = [present |-> TRUE, clusters |-> clusters_dict]]

\* update_umbrella_tracking on a scene record; io is the outcome of the two
\* file-system steps (os.makedirs, open/json.dump).  raised: an exception
\* left the function; the other fields are its locals at that moment;
\* stages: the stages of the tick the call got to, in the order it ran them.
update_umbrella_tracking(scene, io, timestep) ==
  IF io = "makedirs_fail"
    THEN [raised |-> TRUE, scene |-> scene, events |-> <<>>,
          computed |-> FALSE, clusters_dict |-> <<>>, used_prev |-> NoPrev,
          stages |-> <<>>]
    ELSE
      LET clusters_dict == umbrella_clusters_with_roots(scene.gaussians)
          prev == scene.prev_clusters
          corr == correspondence_matrix_with_roots(prev.clusters, clusters_dict)
          events_detected ==
            IF prev.present
              THEN detect_events_from_correspondence_matrix(
                     corr.M, corr.prev_roots, corr.curr_roots, timestep).events
              ELSE FirstFrameEvents(clusters_dict, timestep)
      IN IF io = "write_fail"
           THEN [raised |-> TRUE, scene |-> scene, events |-> <<>>,
                 computed |-> TRUE, clusters_dict |-> clusters_dict,
                 used_prev |-> prev,
                 stages |-> <<"clustering", "correspondence", "persistence">>]
           ELSE [raised |-> FALSE, scene |-> StorePrev(scene, clusters_dict),
                 events |-> events_detected,
                 computed |-> TRUE, clusters_dict |-> clusters_dict,
                 used_prev |-> prev,
                 stages |-> <<"clustering", "correspondence", "persistence">>]

\* ------------------------------------------------------------------ scene
\* GaussianScene.__init__ (no _prev_clusters attribute yet)
GaussianScene(w, h) ==
  [width |-> w, height |-> h, spacing |-> 10, gaussians |-> <<>>,
   next_id |-> 1, distribution_type |-> "Gaussian", paths |-> <<>>,
   path_index |-> <<>>, prev_clusters |-> NoPrev]

\* the scene MainWindow.__init__ builds: grid_w = grid_h = 50
NewScene == GaussianScene(50, 50)

\* GaussianScene.updateWidthHeight
updateWidthHeight(scene, w, h, space) ==
  [scene EXCEPT !.width = w, !.height = h, !.spacing = space]

\* ScenarioGenerator._create_scene
create_scene(w, h, space, distribution) ==
  [updateWidthHeight(GaussianScene(w, h), w, h, space)
     EXCEPT !.distribution_type = distribution]

\* clear dropping the paths, the cursors and the retained clustering as well
clear_dependents(scene) ==
  [scene EXCEPT !.gaussians = <<>>, !.next_id = 1, !.paths = <<>>,
                !.path_index = <<>>, !.prev_clusters = NoPrev]

\* clear without the reset of _next_id
clear_keep_next_id(scene) == [scene EXCEPT !.gaussians = <<>>]

\* GaussianScene.clear
clear(scene) == [scene EXCEPT !.gaussians = <<>>, !.next_id = 1]

\* NextIdAfterAdd without the increment
NextIdAfterAdd_same(next_id) == next_id

NextIdAfterAdd(next_id) == next_id + 1

\* GaussianScene.add_gaussian (the derived kernel parameters sx, sy, theta,
\* gamma, lambda are functions of variance and are not held)
add_gaussian(scene, x, y, amplitude, variance) ==
  [scene EXCEPT
     !.gaussians = Append(@, [id |-> scene.next_id, x |-> x, y |-> y,
                              amp |-> amplitude, var |-> variance]),
     !.next_id = NextIdAfterAdd(@)]

\* --------------------------------------------------------------- sampling
\* floor(10^6 * exp(-e / 32)) for an exponent held in 32nds
SampleExpTable ==
  (0 :> 1000000) @@ (1 :> 969233) @@ (2 :> 939413) @@ (4 :> 882496) @@
  (5 :> 855345) @@ (8 :> 778800) @@ (9 :> 754839) @@ (10 :> 731615) @@
  (16 :> 606530) @@ (17 :> 587869) @@ (18 :> 569782) @@ (20 :> 535261) @@
  (32 :> 367879) @@ (34 :> 345590) @@ (40 :> 286504) @@ (64 :> 135335) @@
  (72 :> 105399) @@ (80 :> 82084) @@ (128 :> 18315) @@ (136 :> 14264) @@
  (144 :> 11108) @@ (160 :> 6737) @@ (256 :> 335) @@ (272 :> 203)

SampleExp(e32) == SampleExpTable[e32]

\* kernel values are held in units of 1 / (KScale * 10^6)
KScale == 16

\* f_gaussian: amp * exp(-r2 / (2 * var))
f_gaussian(x, y, g) ==
  LET r2 == (x - g.x) * (x - g.x) + (y - g.y) * (y - g.y)
  IN g.amp * KScale * SampleExp((8 * r2) \div g.var)

\* f_mexican_hat: sigma = var; amp * (1 - r2 / sigma^2) * exp(-r2 / (2 * sigma^2))
f_mexican_hat(x, y, g) ==
  LET r2 == (x - g.x) * (x - g.x) + (y - g.y) * (y - g.y)
      sigma2 == g.var * g.var
  IN g.amp * (sigma2 - r2) * (KScale \div sigma2)
       * SampleExp((16 * r2) \div sigma2)

\* dist_map[self.distribution_type], for the two kernels drawn here
dist_fn(distribution, x, y, g) ==
  CASE distribution = "Gaussian" -> f_gaussian(x, y, g)
    [] distribution = "Mexican Hat" -> f_mexican_hat(x, y, g)

PyMax(a, b) == IF b > a THEN b ELSE a

\* the inner loop "for g in self.gaussians: val = max(val, dist_fn(x, y, g))"
RECURSIVE CellLoop(_, _, _, _, _)
CellLoop(scene, x, y, k, val) ==
  IF k > Len(scene.gaussians) THEN val
  ELSE CellLoop(scene, x, y, k + 1,
                PyMax(val, dist_fn(scene.distribution_type, x, y, scene.gaussians[k])))

\* S = 2 samples per grid step; dx = spacing / S, in half world units
SuperSample == 2
CellSize(scene) == (2 * scene.spacing) \div (10 * SuperSample)

\* GaussianScene.generate_image_data: the image as rows j of cells i, the
\* cell (i, j) sampled at (i * dx, j * dx), val starting at 0.0
generate_image_data(scene) ==
  [j \in 1..(scene.height * SuperSample) |->
     [i \in 1..(scene.width * SuperSample) |->
        CellLoop(scene, (i - 1) * CellSize(scene), (j - 1) * CellSize(scene), 1, 0)]]

\* "no value": what a Python call hands back when it returns None
ReturnedNone == [present |-> FALSE, value |-> 0]

\* the value add_gaussian hands back to its caller: the body ends with the
\* increment of line 66 and has no return statement
add_gaussian_returns(scene, x, y, amplitude, variance) == ReturnedNone

\* whether add_gaussian raises: math.sqrt(variance) of line 59 is a
\* ValueError for a negative variance, before anything is stored;
\* math.sqrt(0.0) is 0.0
add_gaussian_raises(variance) == variance < 0

\* ------------------------------------------------------------- advection
Sgn(d) == IF d > 0 THEN 1 ELSE IF d < 0 THEN -1 ELSE 0

\* (dx / dist, dy / dist) for a displacement along one axis, the only kind
\* the waypoints drawn here produce (every y is the same)
UnitDir(dx, dy) ==
  CASE dy = 0 -> <<Sgn(dx), 0>>
    [] dx = 0 -> <<0, Sgn(dy)>>

\* self.path_index.get(gid, 0), as a 0-based Python index
PathIndexGet(path_index, gid) ==
  IF gid \in DOMAIN path_index THEN path_index[gid] ELSE 0

\* NextCursor without the wrap
NextCursor_nowrap(idx, n) == idx + 1

\* the cursor after a waypoint was reached: idx + 1, or 0 past the last one
NextCursor(idx, n) == IF idx + 1 >= n THEN 0 ELSE idx + 1

\* one iteration of the loop of move_gaussians_by_custom_path, for the k-th
\* source; raised: paths[gid][idx] was out of range (IndexError)
PathStep(scene, k) ==
  LET g == scene.gaussians[k]
      gid == g.id
  IN IF ~(gid \in DOMAIN scene.paths /\ Len(scene.paths[gid]) > 0)
       THEN [raised |-> FALSE, scene |-> scene]
       ELSE
         LET idx == PathIndexGet(scene.path_index, gid)
         IN IF idx >= Len(scene.paths[gid])
              THEN [raised |-> TRUE, scene |-> scene]
              ELSE
                LET t == scene.paths[gid][idx + 1]
                    dx == t[1] - g.x
                    dy == t[2] - g.y
                    dist2 == dx * dx + dy * dy
                    nxt == NextCursor(idx, Len(scene.paths[gid]))
                    dir == UnitDir(dx, dy)
                IN IF dist2 < PathThreshold * PathThreshold
                     THEN [raised |-> FALSE,
                           scene |-> [scene EXCEPT !.path_index =
                                        (gid :> nxt) @@ scene.path_index]]
                     ELSE [raised |-> FALSE,
                           scene |-> [scene EXCEPT
                                        !.gaussians[k].x = @ + path_speed * dir[1],
                                        !.gaussians[k].y = @ + path_speed * dir[2]]]

RECURSIVE PathLoop(_, _)
PathLoop(scene, k) ==
  IF k > Len(scene.gaussians) THEN [raised |-> FALSE, scene |-> scene]
  ELSE LET r == PathStep(scene, k)
       IN IF r.raised THEN r ELSE PathLoop(r.scene, k + 1)

\* move_gaussians_by_custom_path stepping every source along x, path or not
move_gaussians_by_custom_path_all(scene) ==
  [raised |-> FALSE,
   scene |-> [scene EXCEPT !.gaussians =
                [k \in 1..Len(scene.gaussians) |->
                   [scene.gaussians[k] EXCEPT !.x = @ + path_speed]]]]

move_gaussians_by_custom_path(scene) == PathLoop(scene, 1)

\* move_gaussians_by_vector_field with vector_field None, its value in every
\* state here: the early return of lines 174-175
move_gaussians_by_vector_field(scene) == [raised |-> FALSE, scene |-> scene]

\* speed=0.5, as MainWindow.update passes it, in half world units
FieldSpeed == 1

PyMin(a, b) == IF b < a THEN b ELSE a

\* self.width * self.spacing - 1 in half world units, for a grid whose
\* extent is a whole number of half units
ClampHigh(n, space) == (n * space) \div 5 - 2

\* one iteration of the loop of move_gaussians_by_vector_field (lines
\* 232-248) for the k-th source; dir is (vx / mag, vy / mag), the normalised
\* bilinear sample of the field at the source
FieldStep(scene, k, dir) ==
  [scene EXCEPT
     !.gaussians[k].x =
        PyMin(PyMax(@ + FieldSpeed * dir[1], 0),
              ClampHigh(scene.width, scene.spacing)),
     !.gaussians[k].y =
        PyMin(PyMax(@ + FieldSpeed * dir[2], 0),
              ClampHigh(scene.height, scene.spacing))]

RECURSIVE FieldLoop(_, _, _)
FieldLoop(scene, dirs, k) ==
  IF k > Len(scene.gaussians) THEN scene
  ELSE FieldLoop(FieldStep(scene, k, dirs[k]), dirs, k + 1)

\* move_gaussians_by_vector_field with a field that has vectors; dirs[k] is
\* the direction the field gives at the k-th source
move_gaussians_along_field(scene, dirs) == FieldLoop(scene, dirs, 1)

\* the mode dispatch at the head of MainWindow.update
Advect(scene, field_type) ==
  IF field_type = "Custom"
    THEN move_gaussians_by_custom_path(scene)
    ELSE move_gaussians_by_vector_field(scene)

\* Caught without the try/except
Caught_never(raised) == FALSE

\* whether the except clause of _update_timer stops what the tracking raised
Caught(raised) == TRUE

\* MainWindow._update_timer: resampling (generate_image_data), noise and
\* rendering come first and leave the scene alone; the tracking call sits in
\* try/except Exception
update_timer(scene, evs, timestep, io) ==
  LET tr == update_umbrella_tracking(scene, io, timestep)
      stages == <<"resample", "noise">> \o tr.stages
  IN IF tr.raised
       THEN [scene |-> tr.scene, events |-> evs, tracking_timestep |-> timestep,
             escaped |-> ~Caught(tr.raised), tr |-> tr, stages |-> stages]
       ELSE [scene |-> tr.scene, events |-> evs \o tr.events,
             tracking_timestep |-> timestep + 1, escaped |-> FALSE, tr |-> tr,
             stages |-> stages]

\* ------------------------------------------------------------------ state
VARIABLES
  width,                       \* GaussianScene.width
  height,                      \* GaussianScene.height
  spacing,                     \* GaussianScene.spacing
  distribution_type,           \* GaussianScene.distribution_type
  gaussians,                   \* GaussianScene.gaussians
  next_id,                     \* GaussianScene._next_id
  paths,                       \* GaussianScene.paths
  path_index,                  \* GaussianScene.path_index
  prev_clusters,               \* GaussianScene._prev_clusters (present or not)
  events,                      \* MainWindow.events
  tracking_timestep,           \* MainWindow.tracking_timestep
  selected_vector_field_type,  \* MainWindow.selected_vector_field_type
  selected_gaussian_id,        \* MainWindow.selected_gaussian_id (0: None)
  pick_path_mode,              \* MainWindow.pick_path_mode
  collected_path_points,       \* MainWindow.collected_path_points
  interactor_style,            \* the style set on MainWindow.iren: "style" or the path-picking "track"
  clears,                      \* history: "never" cleared or replaced; cleared "since_step", the last completed tracking step; or only "before_step"
  issued,                      \* history: how often each id was handed out (capped at 2)
  dangling,                    \* history: the ids whose path entry was given to a source since removed
  last                         \* history: the handler that ran last and what it saw

vars == <<width, height, spacing, distribution_type, gaussians, next_id,
          paths, path_index, prev_clusters, events, tracking_timestep,
          selected_vector_field_type, selected_gaussian_id, pick_path_mode,
          collected_path_points, interactor_style, clears, issued, dangling,
          last>>

\* the state of path picking
pick == <<selected_gaussian_id, pick_path_mode, collected_path_points,
          interactor_style>>

\* MainWindow.__init__ as far as selection and picking go: nothing is
\* selected, the interactor has its own style
InitGui ==
  /\ selected_gaussian_id = 0
  /\ pick_path_mode = FALSE
  /\ collected_path_points = <<>>
  /\ interactor_style = "style"
  /\ clears = "never"

TheScene ==
  [width |-> width, height |-> height, spacing |-> spacing,
   gaussians |-> gaussians, next_id |-> next_id,
   distribution_type |-> distribution_type, paths |-> paths,
   path_index |-> path_index, prev_clusters |-> prev_clusters]

SetScene(scene) ==
  /\ width' = scene.width
  /\ height' = scene.height
  /\ spacing' = scene.spacing
  /\ distribution_type' = scene.distribution_type
  /\ gaussians' = scene.gaussians
  /\ next_id' = scene.next_id
  /\ paths' = scene.paths
  /\ path_index' = scene.path_index
  /\ prev_clusters' = scene.prev_clusters

Idle(op) ==
  [op |-> op, io |-> "ok", advect_raised |-> FALSE, raised |-> FALSE,
   escaped |-> FALSE, computed |-> FALSE, before |-> NewScene,
   clusters_dict |-> <<>>, used_prev |-> NoPrev, detected |-> <<>>,
   args |-> <<>>, returned |-> ReturnedNone, img |-> <<>>, stages |-> <<>>]

Ids(gs) == {gs[k].id : k \in 1..Len(gs)}

NoneIssued == [i \in 1..MaxSources |-> 0]

\* the ids carried by positions from+1.. of gs were handed out once more
RECURSIVE Issue(_, _, _)
Issue(iss, gs, from) ==
  IF from >= Len(gs) THEN iss
  ELSE LET id == gs[from + 1].id
       IN Issue([iss EXCEPT ![id] = IF @ >= 2 THEN 2 ELSE @ + 1], gs, from + 1)

Init ==
  /\ width = NewScene.width
  /\ height = NewScene.height
  /\ spacing = NewScene.spacing
  /\ distribution_type = NewScene.distribution_type
  /\ dangling = {}
  /\ gaussians = NewScene.gaussians
  /\ next_id = NewScene.next_id
  /\ paths = NewScene.paths
  /\ path_index = NewScene.path_index
  /\ prev_clusters = NewScene.prev_clusters
  /\ events = <<>>
  /\ tracking_timestep = 0
  /\ selected_vector_field_type = "None"
  /\ issued = NoneIssued
  /\ InitGui
  /\ last = Idle("init")

\* ---------------------------------------------------------------- actions
\* the loop "for _ in range(n)" of add_gaussians_from_dock: the k-th call
RECURSIVE AddMany(_, _, _, _, _, _)
AddMany(scene, xs, ys, amplitude, variance, k) ==
  IF k > Len(xs) THEN scene
  ELSE AddMany(add_gaussian(scene, xs[k], ys[k], amplitude, variance),
               xs, ys, amplitude, variance, k + 1)

\* MainWindow.add_gaussians_from_dock with the dock open: n sources of one
\* amplitude and variance, at the position typed in (all xs equal) or at
\* random positions
AddGaussiansFromDock ==
  \E n \in DockCounts :
    /\ Len(gaussians) + n <= MaxSources
    /\ \E xs \in [1..n -> DockXs], ys \in [1..n -> Ys],
          amplitude \in DockAmps, variance \in DockVars, kernel \in DockKernels :
         LET scene == AddMany([TheScene EXCEPT !.distribution_type = kernel],
                              xs, ys, amplitude, variance, 1)
         IN /\ SetScene(scene)
            /\ issued' = Issue(issued, scene.gaussians, Len(gaussians))
            /\ last' = Idle("add")
    /\ UNCHANGED <<events, tracking_timestep, selected_vector_field_type, dangling,
                   clears, pick>>

\* MainWindow.on_new: scene.clear(); the export counter, the list widget and
\* the redraw hold no state kept here
OnNew ==
  /\ SetScene(clear(TheScene))
  /\ dangling' = dangling \cup DOMAIN paths
  /\ clears' = "since_step"
  /\ last' = Idle("new")
  /\ UNCHANGED <<events, tracking_timestep, selected_vector_field_type, issued,
                 pick>>

\* ScenarioGenerator._make_straight_path for steps = 2: t = 0 and t = 1
MakeStraightPath(start, end) == <<start, end>>

\* the path loop of scenario_merge_split as the scenario window calls it
\* (steps=2): full = first + second[1:]
RECURSIVE AssignPaths(_, _, _, _)
AssignPaths(scene, merge_point, split_points, k) ==
  IF k > Len(scene.gaussians) THEN scene
  ELSE LET g == scene.gaussians[k]
           first == MakeStraightPath(<<g.x, g.y>>, merge_point)
           second == MakeStraightPath(merge_point, split_points[k])
           full == first \o Tail(second)
       IN AssignPaths([scene EXCEPT !.paths = (g.id :> full) @@ @,
                                    !.path_index = (g.id :> 0) @@ @],
                      merge_point, split_points, k + 1)

\* ScenarioGenerator.scenario_merge_split as the scenario window calls it
\* (width = height = 200, spacing = 1.0): a fresh scene, n sources, a path
\* start -> merge -> split for each
scenario_merge_split(xs, ys, amplitude, variance, merge_point, split_points) ==
  AssignPaths(AddMany(create_scene(200, 200, 10, "Gaussian"),
                      xs, ys, amplitude, variance, 1),
              merge_point, split_points, 1)

\* MainWindow.on_scenario_generated: the generated scene replaces the
\* current one, the vector field is dropped, the mode becomes "Custom"
ScenarioGenerated ==
  \E n \in ScenarioCounts :
    /\ n <= MaxSources
    /\ \E xs \in [1..n -> ScenarioStarts], ys \in [1..n -> Ys],
          amplitude \in ScenarioAmps, variance \in ScenarioVars,
          mx \in ScenarioMerges, sx \in [1..n -> ScenarioSplits], y \in Ys :
         LET scene == scenario_merge_split(xs, ys, amplitude, variance, <<mx, y>>,
                                           [k \in 1..n |-> <<sx[k], y>>])
         IN /\ SetScene(scene)
            /\ issued' = Issue(NoneIssued, scene.gaussians, 0)
    /\ dangling' = {}
    /\ selected_vector_field_type' = "Custom"
    /\ clears' = "since_step"
    /\ last' = Idle("scenario")
    /\ UNCHANGED <<events, tracking_timestep, pick>>

\* MainWindow.update, one timer tick: advection, then _update_timer (the
\* export step is off, as at start-up).  io is what the file system does to
\* the snapshot of this tick.
Tick(limit) ==
  /\ tracking_timestep < limit
  /\ \E io \in IoOutcomes :
       LET adv == Advect(TheScene, selected_vector_field_type)
           ut == update_timer(adv.scene, events, tracking_timestep, io)
       IN IF adv.raised
            THEN /\ SetScene(adv.scene)
                 /\ UNCHANGED <<events, tracking_timestep, clears>>
                 /\ last' = [Idle("update") EXCEPT !.advect_raised = TRUE,
                                                   !.escaped = TRUE,
                                                   !.stages = <<"advection">>]
            ELSE /\ SetScene(ut.scene)
                 /\ events' = ut.events
                 /\ tracking_timestep' = ut.tracking_timestep
                 /\ clears' = IF ~ut.tr.raised /\ clears = "since_step"
                                THEN "before_step" ELSE clears
                 /\ last' = [Idle("update") EXCEPT
                               !.io = io,
                               !.raised = ut.tr.raised, !.escaped = ut.escaped,
                               !.computed = ut.tr.computed, !.before = adv.scene,
                               !.clusters_dict = ut.tr.clusters_dict,
                               !.used_prev = ut.tr.used_prev,
                               !.detected = ut.tr.events,
                               !.stages = <<"advection">> \o ut.stages]
  /\ UNCHANGED <<selected_vector_field_type, issued, dangling, pick>>

\* the timer tick within the number of ticks explored
Update == Tick(MaxTicks)

\* the place of e in a list sorted by descending time, after its equals
RECURSIVE InsertByTime_desc(_, _)
InsertByTime_desc(sorted, e) ==
  IF sorted = <<>> THEN <<e>>
  ELSE IF Head(sorted).time >= e.time
         THEN <<Head(sorted)>> \o InsertByTime_desc(Tail(sorted), e)
         ELSE <<e>> \o sorted

\* the place of e in a list sorted by time: after every element whose time
\* is not larger (the sort is stable)
RECURSIVE InsertByTime(_, _)
InsertByTime(sorted, e) ==
  IF sorted = <<>> THEN <<e>>
  ELSE IF Head(sorted).time <= e.time
         THEN <<Head(sorted)>> \o InsertByTime(Tail(sorted), e)
         ELSE <<e>> \o sorted

\* SortByTime with reverse=True
RECURSIVE SortByTime_desc(_)
SortByTime_desc(evs) ==
  IF evs = <<>> THEN <<>>
  ELSE InsertByTime_desc(SortByTime_desc(SubSeq(evs, 1, Len(evs) - 1)), evs[Len(evs)])

\* events.sort(key=lambda e: e["time"]) of plot_tracking_timeline: the list
\* it is handed, sorted in place
RECURSIVE SortByTime(_)
SortByTime(evs) ==
  IF evs = <<>> THEN <<>>
  ELSE InsertByTime(SortByTime(SubSeq(evs, 1, Len(evs) - 1)), evs[Len(evs)])

\* plot_tracking_timeline, as far as the list it is handed goes: everything
\* else it builds is local to the call
plot_tracking_timeline(evs) == SortByTime(evs)

\* MainWindow.plot_the_timeline_with_events: the log itself is handed over
PlotTimeline ==
  /\ events' = plot_tracking_timeline(events)
  /\ last' = Idle("plot")
  /\ UNCHANGED <<width, height, spacing, distribution_type, gaussians, next_id,
                 paths, path_index, prev_clusters, tracking_timestep,
                 selected_vector_field_type, issued, dangling, clears, pick>>

Next ==
  \/ AddGaussiansFromDock
  \/ OnNew
  \/ ScenarioGenerated
  \/ Update
  \/ PlotTimeline

Spec == Init /\ [][Next]_vars

\* -------------------------------------------- add_gaussian called directly
\* one call scene.add_gaussian(x, y, amplitude, variance)
AddCall ==
  /\ Len(gaussians) < MaxAddSources
  /\ \E x \in Xs, y \in Ys, amplitude \in DockAmps, variance \in AddVars :
       LET a == [x |-> x, y |-> y, amplitude |-> amplitude, variance |-> variance]
       IN IF add_gaussian_raises(variance)
            THEN /\ SetScene(TheScene)
                 /\ last' = [Idle("add_call") EXCEPT !.raised = TRUE, !.args = a]
            ELSE /\ SetScene(add_gaussian(TheScene, x, y, amplitude, variance))
                 /\ last' = [Idle("add_call") EXCEPT
                               !.args = a,
                               !.returned = add_gaussian_returns(TheScene, x, y,
                                                                 amplitude, variance)]
  /\ UNCHANGED <<events, tracking_timestep, selected_vector_field_type, issued,
                 dangling, clears, pick>>

SpecAdd == Init /\ [][AddCall \/ OnNew]_vars

\* --------------------------------- sampling, clustering, tracking on a grid
SourceListsAt(maxn, xset, yset, kinds) ==
  UNION {{[k \in 1..n |-> [id |-> k, x |-> xs[k], y |-> ys[k],
                           amp |-> ks[k][1], var |-> ks[k][2]]] :
            xs \in [1..n -> xset], ys \in [1..n -> yset],
            ks \in [1..n -> kinds]} : n \in 0..maxn}

SampleLists == SourceListsAt(MaxSampleSources, SampleXs, SampleYs, SampleKinds)

SamplePrevs ==
  {NoPrev} \cup {[present |-> TRUE, clusters |-> umbrella_clusters_with_roots(gs)] :
                   gs \in SampleLists}

\* a scene on a small grid, as some earlier history left it
InitSample ==
  /\ \E g \in SampleGrids : width = g[1] /\ height = g[2]
  /\ spacing = 10
  /\ distribution_type \in SampleKernels
  /\ dangling = {}
  /\ gaussians \in SampleLists
  /\ next_id = Len(gaussians) + 1
  /\ paths = <<>>
  /\ path_index = <<>>
  /\ prev_clusters \in SamplePrevs
  /\ events = <<>>
  /\ tracking_timestep = 0
  /\ selected_vector_field_type = "None"
  /\ issued = NoneIssued
  /\ InitGui
  /\ last = Idle("init")

\* one call scene.generate_image_data()
Sample ==
  /\ last.op = "init"
  /\ last' = [Idle("sample") EXCEPT !.img = generate_image_data(TheScene)]
  /\ UNCHANGED <<width, height, spacing, distribution_type, gaussians, next_id,
                 paths, path_index, prev_clusters, events, tracking_timestep,
                 selected_vector_field_type, issued, dangling, clears, pick>>

\* ------------------------------------------- field-driven advection alone
\* a scene after generate_vector_field set its grid and a field with vectors
InitField ==
  /\ \E g \in FieldGrids : width = g[1] /\ height = g[2] /\ spacing = g[3]
  /\ distribution_type = "Gaussian"
  /\ dangling = {}
  /\ gaussians \in SourceListsAt(MaxFieldSources, FieldXs, FieldYs, FieldKinds)
  /\ next_id = Len(gaussians) + 1
  /\ paths = <<>>
  /\ path_index = <<>>
  /\ prev_clusters = NoPrev
  /\ events = <<>>
  /\ tracking_timestep = 0
  /\ selected_vector_field_type = "Sink"
  /\ issued = NoneIssued
  /\ InitGui
  /\ last = Idle("init")

\* one call scene.move_gaussians_by_vector_field(field, speed=0.5)
FieldMove ==
  /\ last.op = "init"
  /\ \E dirs \in [1..Len(gaussians) -> FieldDirs] :
       SetScene(move_gaussians_along_field(TheScene, dirs))
  /\ last' = [Idle("field_move") EXCEPT !.before = TheScene]
  /\ UNCHANGED <<events, tracking_timestep, selected_vector_field_type, issued,
                 dangling, clears, pick>>

SpecField == InitField /\ [][FieldMove]_vars

\* ------------------------------------------- the tracking step on its own
\* every source list a scene can hold: ids 1..n in list order; a kind is an
\* <<amplitude, variance>> pair
SourceLists(maxn, kinds) ==
  UNION {{[k \in 1..n |-> [id |-> k, x |-> xs[k], y |-> ys[k],
                           amp |-> ks[k][1], var |-> ks[k][2]]] :
            xs \in [1..n -> Xs], ys \in [1..n -> Ys],
            ks \in [1..n -> kinds]} : n \in 0..maxn}

TrackLists == SourceLists(MaxTrackSources, TrackKinds)

\* what a scene may retain: nothing, or the clustering of any source list
TrackPrevs ==
  {NoPrev} \cup {[present |-> TRUE, clusters |-> umbrella_clusters_with_roots(gs)] :
                   gs \in TrackLists}

\* a scene as some earlier history left it
InitTrack ==
  /\ width = NewScene.width
  /\ height = NewScene.height
  /\ spacing = NewScene.spacing
  /\ distribution_type = NewScene.distribution_type
  /\ dangling = {}
  /\ gaussians \in TrackLists
  /\ next_id = Len(gaussians) + 1
  /\ paths = <<>>
  /\ path_index = <<>>
  /\ prev_clusters \in TrackPrevs
  /\ events = <<>>
  /\ tracking_timestep = 0
  /\ selected_vector_field_type = "None"
  /\ issued = NoneIssued
  /\ InitGui
  /\ last = Idle("init")

\* one tick on the drawn scene
TrackStep ==
  /\ last.op = "init"
  /\ Update

SpecTrack == InitTrack /\ [][TrackStep]_vars

\* ----------------------------------------------- the clustering on its own
Orders(n) ==
  {p \in [1..n -> 1..n] : \A a, b \in 1..n : a # b => p[a] # p[b]}

InitCluster ==
  /\ width = NewScene.width
  /\ height = NewScene.height
  /\ spacing = NewScene.spacing
  /\ distribution_type = NewScene.distribution_type
  /\ dangling = {}
  /\ gaussians \in SourceLists(MaxClusterSources, ClusterKinds)
  /\ next_id = Len(gaussians) + 1
  /\ paths = <<>>
  /\ path_index = <<>>
  /\ prev_clusters = NoPrev
  /\ events = <<>>
  /\ tracking_timestep = 0
  /\ selected_vector_field_type = "None"
  /\ issued = NoneIssued
  /\ InitGui
  /\ last = Idle("init")

\* umbrella_clusters_with_roots applied to the sources in the order p
ClusterRun ==
  /\ last.op = "init"
  /\ \E p \in Orders(Len(gaussians)) :
       LET gs == [k \in 1..Len(gaussians) |-> gaussians[p[k]]]
       IN last' = [Idle("cluster") EXCEPT
                     !.computed = TRUE,
                     !.before = [NewScene EXCEPT !.gaussians = gs],
                     !.clusters_dict = umbrella_clusters_with_roots(gs)]
  /\ UNCHANGED <<width, height, spacing, distribution_type, gaussians, next_id,
                 paths, path_index, prev_clusters, events, tracking_timestep,
                 selected_vector_field_type, issued, dangling, clears, pick>>

SpecCluster == InitCluster /\ [][ClusterRun]_vars

\* one of the three on the drawn small-grid scene
SpecSample == InitSample /\ [][Sample \/ ClusterRun \/ TrackStep]_vars

\* --------------------------------------------- paths drawn by the user
\* MainWindow.on_gaussian_selected with a current item: the id of the list
\* item clicked (None is stored only when the list has no current item)
OnGaussianSelected ==
  /\ \E gid \in Ids(gaussians) : selected_gaussian_id' = gid
  /\ last' = Idle("select")
  /\ UNCHANGED <<width, height, spacing, distribution_type, gaussians, next_id,
                 paths, path_index, prev_clusters, events, tracking_timestep,
                 selected_vector_field_type, pick_path_mode,
                 collected_path_points, interactor_style, clears, issued,
                 dangling>>

\* MainWindow.enable_path_pick_mode with something selected (with nothing
\* selected it warns and returns): the mode is set first; only when the
\* selected id is that of a source does the path start at the source's
\* position and the interactor get the style with the click observers
EnablePathPickMode ==
  /\ selected_gaussian_id # 0
  /\ pick_path_mode' = TRUE
  /\ IF \E k \in 1..Len(gaussians) : gaussians[k].id = selected_gaussian_id
       THEN LET g == gaussians[CHOOSE k \in 1..Len(gaussians) :
                                 gaussians[k].id = selected_gaussian_id
                                 /\ \A j \in 1..(k - 1) :
                                      gaussians[j].id # selected_gaussian_id]
            IN /\ collected_path_points' = <<<<g.x, g.y>>>>
               /\ interactor_style' = "track"
       ELSE UNCHANGED <<collected_path_points, interactor_style>>
  /\ last' = Idle("enable_path_pick")
  /\ UNCHANGED <<width, height, spacing, distribution_type, gaussians, next_id,
                 paths, path_index, prev_clusters, events, tracking_timestep,
                 selected_vector_field_type, selected_gaussian_id, clears,
                 issued, dangling>>

\* MainWindow.on_path_click, the left-button observer of the picking style:
\* the clicked point joins the collected ones and a copy of them becomes
\* the path of the selected id; the cursor of that id is not written
OnPathClick ==
  /\ interactor_style = "track"
  /\ pick_path_mode
  /\ Len(collected_path_points) < MaxPathLen
  /\ \E x \in PathClickXs, y \in Ys :
       /\ collected_path_points' = Append(collected_path_points, <<x, y>>)
       /\ paths' = (selected_gaussian_id :> collected_path_points') @@ paths
  /\ last' = Idle("path_click")
  /\ UNCHANGED <<width, height, spacing, distribution_type, gaussians, next_id,
                 path_index, prev_clusters, events, tracking_timestep,
                 selected_vector_field_type, selected_gaussian_id,
                 pick_path_mode, interactor_style, clears, issued, dangling>>

\* MainWindow.finish_path_pick_mode, the right-button observer: the
\* collected points become the path, the cursor is set to 0, the mode ends
\* and the interactor gets its own style back
FinishPathPickMode ==
  /\ interactor_style = "track"
  /\ pick_path_mode
  /\ paths' = (selected_gaussian_id :> collected_path_points) @@ paths
  /\ path_index' = (selected_gaussian_id :> 0) @@ path_index
  /\ pick_path_mode' = FALSE
  /\ interactor_style' = "style"
  /\ last' = Idle("finish_path_pick")
  /\ UNCHANGED <<width, height, spacing, distribution_type, gaussians, next_id,
                 prev_clusters, events, tracking_timestep,
                 selected_vector_field_type, selected_gaussian_id,
                 collected_path_points, clears, issued, dangling>>

\* one call scene.move_gaussians_by_custom_path(None, speed=0.5), the first
\* statement of MainWindow.update in the mode "Custom"; an IndexError it
\* raises leaves update before anything else ran
PathMove ==
  /\ selected_vector_field_type = "Custom"
  /\ LET adv == move_gaussians_by_custom_path(TheScene)
     IN /\ SetScene(adv.scene)
        /\ last' = [Idle("path_move") EXCEPT !.advect_raised = adv.raised]
  /\ UNCHANGED <<events, tracking_timestep, selected_vector_field_type, issued,
                 dangling, clears, pick>>

\* the source lists the dock has built
PathLists ==
  UNION {{[k \in 1..n |-> [id |-> k, x |-> xs[k], y |-> ys[k],
                           amp |-> ks[k][1], var |-> ks[k][2]]] :
            xs \in [1..n -> PathXs], ys \in [1..n -> Ys],
            ks \in [1..n -> PathKinds]} : n \in PathCounts}

\* a scene with sources and no paths, the dock open and the mode "Custom"
\* chosen in the vector-field dialog (generate_vector_field)
InitPath ==
  /\ width = NewScene.width
  /\ height = NewScene.height
  /\ spacing = NewScene.spacing
  /\ distribution_type = NewScene.distribution_type
  /\ dangling = {}
  /\ gaussians \in PathLists
  /\ next_id = Len(gaussians) + 1
  /\ paths = <<>>
  /\ path_index = <<>>
  /\ prev_clusters = NoPrev
  /\ events = <<>>
  /\ tracking_timestep = 0
  /\ selected_vector_field_type = "Custom"
  /\ issued = NoneIssued
  /\ InitGui
  /\ last = Idle("init")

NextPath ==
  \/ OnGaussianSelected
  \/ EnablePathPickMode
  \/ OnPathClick
  \/ FinishPathPickMode
  \/ ScenarioGenerated
  \/ PathMove

SpecPath == InitPath /\ [][NextPath]_vars

\* ------------------------------------- ticks on a scene with drawn paths
\* the source lists the dock can have built: one or two sources of two kinds
DrawnLists ==
  UNION {{[k \in 1..n |-> [id |-> k, x |-> xs[k], y |-> ys[k],
                           amp |-> ks[k][1], var |-> ks[k][2]]] :
            xs \in [1..n -> PathXs], ys \in [1..n -> Ys],
            ks \in [1..n -> DrawnKinds]} : n \in DrawnCounts}

\* what path picking leaves for a source once finished: no path, or the
\* source's position followed by one clicked point, with the cursor at 0
DrawnPathsOf(g) == {<<<<g.x, g.y>>, <<c, g.y>>>> : c \in PathClickXs}

\* a scene with sources, the mode "Custom", and a finished path for some of
\* the sources; no tick has run yet
InitDrawn ==
  /\ width = NewScene.width
  /\ height = NewScene.height
  /\ spacing = NewScene.spacing
  /\ distribution_type = NewScene.distribution_type
  /\ dangling = {}
  /\ gaussians \in DrawnLists
  /\ next_id = Len(gaussians) + 1
  /\ \E S \in SUBSET Ids(gaussians) :
       /\ paths \in [S -> UNION {DrawnPathsOf(gaussians[k]) : k \in 1..Len(gaussians)}]
       /\ \A k \in 1..Len(gaussians) :
            gaussians[k].id \in S => paths[gaussians[k].id] \in DrawnPathsOf(gaussians[k])
       /\ path_index = [id \in S |-> 0]
  /\ prev_clusters = NoPrev
  /\ events = <<>>
  /\ tracking_timestep = 0
  /\ selected_vector_field_type = "Custom"
  /\ issued = NoneIssued
  /\ InitGui
  /\ last = Idle("init")

\* the timer tick within the number of ticks explored with drawn paths
PathUpdate == Tick(MaxPathTicks)

SpecDrawn == InitDrawn /\ [][PathUpdate \/ AddGaussiansFromDock]_vars

\* ------------------------------------------------------------------ noise
\* normalised field values and noise amounts are held in units of
\* 1 / NormScale
NormScale == 4

\* np.clip without the two bounds
np_clip_none(v, lo, hi) == v

\* np.clip(v, lo, hi) for one value
np_clip(v, lo, hi) == IF v < lo THEN lo ELSE IF v > hi THEN hi ELSE v

\* the values of a field given as rows of cells
FieldValues(field) ==
  {field[j][i] : j \in 1..Len(field), i \in 1..Len(field[1])}

\* field.min() and field.max()
FieldMin(field) ==
  CHOOSE v \in FieldValues(field) : \A w \in FieldValues(field) : v <= w
FieldMax(field) ==
  CHOOSE v \in FieldValues(field) : \A w \in FieldValues(field) : w <= v

\* the draw the generator seeded with seed makes for the c-th value it is
\* asked for, in units of the distribution's scale: one of -2 .. 2
Rand(seed, c) == ((seed * c + seed) % 5) - 2

\* the cells the k-th of num calls of np.random.randint picks, as
\* <<row, column>> pairs of a field of H rows and W columns
RandCells(seed, num, H, W) ==
  {<<((seed + k) % H) + 1, ((seed * k) % W) + 1>> : k \in 1..num}

\* int(amount * field.size * ratio), ratio in halves
NumCells(amount, size, ratio2) == (amount * size * ratio2) \div (NormScale * 2)

\* math.sqrt of an amount that is 0, 1/4 or 1
SqrtAmount(amount) ==
  CASE amount = 0 -> 0 [] amount = 1 -> 2 [] amount = 4 -> 4

\* the value one of the add_*_noise functions of noises.py leaves in the
\* cell (j, i) of the normalised field, whose value there is v
NoisyCell(noise_type, v, amount, seed, j, i, H, W) ==
  LET c == (j - 1) * W + i
      z == Rand(seed, c)
      size == H * W
  IN CASE noise_type = "Salt" ->
            IF <<j, i>> \in RandCells(seed, NumCells(amount, size, 2), H, W)
              THEN NormScale ELSE v
       [] noise_type = "Pepper" ->
            IF <<j, i>> \in RandCells(seed, NumCells(amount, size, 2), H, W)
              THEN 0 ELSE v
       [] noise_type = "Salt and Pepper" ->
            IF <<j, i>> \in RandCells(seed + 1, NumCells(amount, size, 1), H, W)
              THEN 0
              ELSE IF <<j, i>> \in RandCells(seed, NumCells(amount, size, 1), H, W)
                     THEN NormScale ELSE v
       [] noise_type = "Gaussian (White)" ->
            np_clip(v + amount * z, 0, NormScale)
       [] noise_type = "Gaussian blobs" ->
            np_clip(v + amount * (z + 2), 0, NormScale)
       [] noise_type = "Poisson" ->
            np_clip(IF v = 0 THEN 0 ELSE PyMax(v + z, 0), 0, NormScale)
       [] noise_type = "Speckle" ->
            np_clip(v + (v * z * SqrtAmount(amount)) \div NormScale, 0, NormScale)
       [] noise_type = "Uniform" ->
            np_clip(v + amount * Sgn(z), 0, NormScale)
       [] noise_type = "Laplace" ->
            np_clip(v + amount * z, 0, NormScale)
       [] noise_type = "Perlin" ->
            np_clip(v + (amount * Sgn(z)) \div 2, 0, NormScale)
       [] OTHER -> v

\* the test of line 100 that never returns early
ReturnsInput_never(noise_type) == FALSE

\* the test of line 100: the kind 'None' hands the image back untouched
ReturnsInput(noise_type) == noise_type = "None"

\* apply_noise_to_scalar_field on a field given as rows of cells; seed
\* stands for the state of numpy's generator.  steps: what was done to the
\* field, in order
apply_noise_to_scalar_field(field, noise_type, amount, seed) ==
  IF ReturnsInput(noise_type)
    THEN [img |-> field, steps |-> <<>>]
    ELSE
      LET H == Len(field)
          W == Len(field[1])
          orig_min == FieldMin(field)
          orig_max == FieldMax(field)
          field_norm ==
            [j \in 1..H |-> [i \in 1..W |->
               IF orig_max = orig_min THEN 0
               ELSE ((field[j][i] - orig_min) * NormScale) \div (orig_max - orig_min)]]
          field_noisy ==
            [j \in 1..H |-> [i \in 1..W |->
               NoisyCell(noise_type, field_norm[j][i], amount, seed, j, i, H, W)]]
          field_restored ==
            [j \in 1..H |-> [i \in 1..W |->
               np_clip((field_noisy[j][i] * (orig_max - orig_min)) \div NormScale
                         + orig_min,
                       orig_min, orig_max)]]
      IN [img |-> field_restored, steps |-> <<"normalize", "noise", "rescale">>]

\* a scene on a small grid before its first tick
InitNoise ==
  /\ InitSample
  /\ prev_clusters = NoPrev

\* the noise step of _update_timer on the image just sampled, with the kind
\* and amount chosen in the dock
ApplyNoise ==
  /\ last.op = "sample"
  /\ \E noise_type \in NoiseKinds, amount \in NoiseAmounts, seed \in NoiseSeeds :
       LET out == apply_noise_to_scalar_field(last.img, noise_type, amount, seed)
       IN last' = [Idle("noise") EXCEPT
                     !.img = out.img,
                     !.stages = out.steps,
                     !.args = [field |-> last.img, noise_type |-> noise_type,
                               amount |-> amount]]
  /\ UNCHANGED <<width, height, spacing, distribution_type, gaussians, next_id,
                 paths, path_index, prev_clusters, events, tracking_timestep,
                 selected_vector_field_type, issued, dangling, clears, pick>>

SpecNoise == InitNoise /\ [][Sample \/ ApplyNoise]_vars

TypeOK ==
  /\ next_id = Len(gaussians) + 1
  /\ tracking_timestep \in 0..MaxTicks

\* ================================================================ claims
\* what the tick that ran last worked on
TickDone == last.op = "update" /\ ~last.advect_raised /\ ~last.raised
Prev == last.used_prev.clusters
Curr == last.clusters_dict
Det == last.detected

Members(c) == SeqToSet(c.members)
RootSet(clusters) == {clusters[k].root : k \in 1..Len(clusters)}

\* the previous roots whose members meet those of the current cluster c, in
\* the previous clustering's order
ContribRoots(prev, c) ==
  SelectSeq(Keys(prev),
            LAMBDA r : \E i \in 1..Len(prev) :
                         prev[i].root = r /\ Members(prev[i]) \cap Members(c) # {})

\* two readings of "the target of a merge event is the root j"
TargetIsListOf(t, j) == t = <<j>>
TargetIsBare(t, j) == t \notin Seq(Nat) /\ t = j

MergesFor(det, TargetIs(_, _), j) ==
  {k \in 1..Len(det) : det[k].type = "merge" /\ TargetIs(det[k].target, j)}

ExamplePrev == <<[root |-> 1, members |-> <<1, 2>>], [root |-> 3, members |-> <<3>>]>>
ExampleCurr == <<[root |-> 1, members |-> <<1, 2, 3>>]>>

MergeClaim(TargetIs(_, _)) ==
  (TickDone /\ last.used_prev.present) =>
    /\ \A c \in 1..Len(Curr) :
         LET cr == ContribRoots(Prev, Curr[c])
             ms == MergesFor(Det, TargetIs, Curr[c].root)
         IN /\ (ms # {}) <=> (Len(cr) > 1)
            /\ Cardinality(ms) <= 1
            /\ \A k \in ms : Det[k].sources = cr
    /\ \A k \in 1..Len(Det) :
         Det[k].type = "merge" =>
           \E c \in 1..Len(Curr) : TargetIs(Det[k].target, Curr[c].root)
    /\ (Prev = ExamplePrev /\ Curr = ExampleCurr) =>
         /\ Len(Det) = 1
         /\ Det[1].type = "merge"
         /\ Det[1].sources = <<1, 3>>
         /\ TargetIs(Det[1].target, 1)

\* C1 (as stated): with a previous clustering, a merge event for the current
\* root j is emitted iff more than one previous root shares a member with j;
\* there is then exactly one, its sources are those previous roots in the
\* previous clustering's order and its target is the root id j itself;
\* {1:[1,2], 3:[3]} -> {1:[1,2,3]} gives one merge {sources:[1,3], target:1}
\* and no birth.
C1_MergeTargetIsRootId == MergeClaim(TargetIsBare)

\* C1 (amended): the same, the target of the event being the one-element
\* list [j] that holds the current root id.
C1_MergeTargetIsRootList == MergeClaim(TargetIsListOf)

C1_Witness ==
  /\ TickDone /\ last.used_prev.present
  /\ Prev = ExamplePrev /\ Curr = ExampleCurr
  /\ Det = <<MergeEvent(1, <<1, 3>>, 0)>>

BirthIds(det) ==
  LET bs == SelectSeq(det, LAMBDA e : e.type = "birth")
  IN [k \in 1..Len(bs) |-> bs[k].id]

\* C2: with a previous clustering, the birth events of a tracking step are
\* exactly one per current root id that is not among the previous root ids,
\* and none for a current root id that is among them.
C2_BirthsAreNewRootIds ==
  (TickDone /\ last.used_prev.present) =>
    LET ids == BirthIds(Det)
    IN /\ SeqToSet(ids) = RootSet(Curr) \ RootSet(Prev)
       /\ Len(ids) = Cardinality(SeqToSet(ids))

C2_Witness ==
  /\ TickDone /\ last.used_prev.present
  /\ Prev = <<[root |-> 1, members |-> <<1>>]>>
  /\ Curr = <<[root |-> 1, members |-> <<1>>], [root |-> 2, members |-> <<2>>]>>
  /\ BirthIds(Det) = <<2>>

\* C3: on the first tracking step of a scene (nothing retained) with N
\* current roots, exactly N birth events are produced, one per current
\* root, and no merge event.
C3_FirstStepAllBirths ==
  (TickDone /\ ~last.used_prev.present) =>
    /\ Len(Det) = Len(Curr)
    /\ \A k \in 1..Len(Det) : Det[k].type = "birth" /\ Det[k].id = Curr[k].root
    /\ BirthIds(Det) = Keys(Curr)

C3_Witness ==
  /\ TickDone /\ ~last.used_prev.present
  /\ Len(Curr) = 2 /\ Len(Det) = 2
  /\ Len(last.before.gaussians) = 3

\* a tick whose tracking call got as far as reading the retained clustering
TickCompared == last.op = "update" /\ ~last.advect_raised /\ last.computed

\* a tick whose snapshot could not be persisted
TickIoFailed == last.op = "update" /\ ~last.advect_raised /\ last.io # "ok"

\* C4: a tracking step that completes retains the clustering it computed,
\* the retained clustering is what the next tracking step on the scene
\* compares against, and nothing in between (adding sources, clearing, a
\* tick that fails) replaces it: a step never compares against a clustering
\* older than that of the last completed step.
C4_RetainsLastCompleted ==
  [][/\ TickCompared' => last'.used_prev = prev_clusters
     /\ TickDone' =>
          /\ prev_clusters' = [present |-> TRUE, clusters |-> last'.clusters_dict]
          /\ last'.clusters_dict = umbrella_clusters_with_roots(gaussians')
     /\ (last'.op \in {"add", "new"} \/ (last'.op = "update" /\ ~TickDone')) =>
          prev_clusters' = prev_clusters]_vars

C4_Witness ==
  /\ TickDone /\ tracking_timestep = 2
  /\ last.used_prev.present
  /\ Prev # Curr
  /\ prev_clusters.clusters = Curr

\* C5: when persisting the snapshot fails during a tick, the clustering of
\* that tick is retained all the same and is what the next tick compares
\* against.
C5_RetainedDespiteIoFailure ==
  [][TickIoFailed' =>
       prev_clusters' = [present |-> TRUE,
                         clusters |-> umbrella_clusters_with_roots(gaussians')]]_vars

\* C6: when persisting the snapshot fails during a tick, the error stays
\* inside the tick handler, and the source list, the paths and the path
\* cursors are what they were right before the tracking step of that tick.
C6_IoFailureLeavesScene ==
  [][TickIoFailed' =>
       /\ ~last'.escaped
       /\ gaussians' = last'.before.gaussians
       /\ paths' = last'.before.paths
       /\ path_index' = last'.before.path_index]_vars

C6_Witness ==
  /\ TickIoFailed /\ last.io = "write_fail"
  /\ selected_vector_field_type = "Custom"
  /\ Len(gaussians) = 2
  /\ 1 \in DOMAIN paths /\ path_index[1] = 1

\* the clustering run that ran last, on the list order it was given
Clustered == last.op = "cluster"
Given == last.before.gaussians

\* C7: the clustering is a partition of the source ids: every source id is
\* in exactly one member list, once; no member list is empty; and every
\* cluster is keyed by the id of one of its own members.
C7_ClustersPartitionIds ==
  Clustered =>
    /\ \A k \in 1..Len(Given) :
         Cardinality({<<c, m>> \in (1..Len(Curr)) \X (1..Len(Given)) :
                        m <= Len(Curr[c].members)
                        /\ Curr[c].members[m] = Given[k].id}) = 1
    /\ \A c \in 1..Len(Curr) :
         /\ Len(Curr[c].members) > 0
         /\ Members(Curr[c]) \subseteq Ids(Given)
         /\ Curr[c].root \in Members(Curr[c])
    /\ \A c, d \in 1..Len(Curr) : c # d => Curr[c].root # Curr[d].root

C7_Witness ==
  /\ Clustered
  /\ Len(Given) = 3 /\ Len(Curr) = 2
  /\ \E c \in 1..Len(Curr) : Curr[c].root # Curr[c].members[1]
  /\ \E k \in 1..Len(Given) : Given[k].id # k

\* the umbrella criterion for the ordered pair (i, j), as the claim words it:
\* amplitude_i <= amplitude_j * exp(-dist^2 / (2 * variance_j))
Criterion(gs, i, j) ==
  gs[i].amp * Micro
    <= gs[j].amp * ExpMicro((gs[i].x - gs[j].x) * (gs[i].x - gs[j].x)
                              + (gs[i].y - gs[j].y) * (gs[i].y - gs[j].y),
                            gs[j].var)

Linked(gs, i, j) == i # j /\ (Criterion(gs, i, j) \/ Criterion(gs, j, i))

\* the list positions reachable from those of S along linked pairs
RECURSIVE Chain(_, _)
Chain(gs, S) ==
  LET T == S \cup {j \in 1..Len(gs) : \E i \in S : Linked(gs, i, j)}
  IN IF T = S THEN S ELSE Chain(gs, T)

SameCluster(clusters, a, b) ==
  \E c \in 1..Len(clusters) : a \in Members(clusters[c]) /\ b \in Members(clusters[c])

\* C8: two sources are in the same cluster iff a chain of sources links
\* them in which each consecutive pair has a domination in at least one
\* direction; two coincident sources of amplitudes 1 and 2 form one
\* cluster, two sources neither of which dominates the other stay apart.
C8_ClustersAreDominationChains ==
  Clustered =>
    /\ \A i, j \in 1..Len(Given) :
         SameCluster(Curr, Given[i].id, Given[j].id) <=> j \in Chain(Given, {i})
    /\ Len(Given) = 2 =>
         /\ (Given[1].x = Given[2].x /\ Given[1].y = Given[2].y
             /\ {Given[1].amp, Given[2].amp} = {1, 2}) => Len(Curr) = 1
         /\ ~Linked(Given, 1, 2) => Len(Curr) = 2

C8_Witness ==
  /\ Clustered
  /\ Len(Given) = 3 /\ Len(Curr) = 1
  /\ \E i, j \in 1..3 : i # j /\ ~Linked(Given, i, j)
  /\ \E i, j \in 1..3 : Criterion(Given, i, j) /\ ~Criterion(Given, j, i)
  /\ \E i, j \in 1..3 : Given[i].var # Given[j].var

Partition(clusters) == {Members(clusters[c]) : c \in 1..Len(clusters)}

\* C9: clustering the same sources in another list order gives the same
\* partition (the same set of member sets), whatever the roots are.
C9_PartitionIgnoresOrder ==
  Clustered => Partition(Curr) = Partition(umbrella_clusters_with_roots(gaussians))

C9_Witness ==
  /\ Clustered
  /\ Len(gaussians) = 3 /\ Given # gaussians
  /\ Len(Curr) = 2
  /\ RootSet(Curr) # RootSet(umbrella_clusters_with_roots(gaussians))

\* C10 (as stated): over any sequence of adds and clears on a scene, no id
\* is ever given to two different sources.
C10_IdNeverReused == \A i \in DOMAIN issued : issued[i] <= 1

\* C10 (amended): the ids of the sources a scene holds at any moment are
\* pairwise different, increase along the list and lie below the next id to
\* be given; clear() restarts the sequence at 1, so an id given before a
\* clear is given again after it.
C10_LiveIdsDistinct ==
  /\ \A i, j \in 1..Len(gaussians) : i < j => gaussians[i].id < gaussians[j].id
  /\ \A i \in 1..Len(gaussians) : gaussians[i].id < next_id
  /\ (last.op = "new" /\ Len(gaussians) = 0) => next_id = 1

C10_Witness ==
  /\ issued[1] = 2
  /\ Len(gaussians) = 2
  /\ last.op = "add"

\* a direct call of add_gaussian that stored a source
AddStored == last.op = "add_call" /\ ~last.raised

\* C11: add_gaussian gives the new source the next sequential id, appends
\* exactly that one source at the end of the list, leaves every source
\* already there as it was, and returns the new id to its caller.
C11_AddReturnsNewId ==
  [][AddStored' =>
       /\ Len(gaussians') = Len(gaussians) + 1
       /\ SubSeq(gaussians', 1, Len(gaussians)) = gaussians
       /\ gaussians'[Len(gaussians')].id = next_id
       /\ next_id' = next_id + 1
       /\ last'.returned = [present |-> TRUE, value |-> next_id]]_vars

\* C16: add_gaussian with a variance that is zero or negative raises, adds
\* no source and consumes no id.
C16_RejectsNonPositiveVariance ==
  [][(last'.op = "add_call" /\ last'.args.variance <= 0) =>
       /\ last'.raised
       /\ gaussians' = gaussians
       /\ next_id' = next_id]_vars

\* a tick that ran in path-driven mode
PathTick == last.op = "update" /\ selected_vector_field_type = "Custom"

\* C12: a path entry left behind by a source that clear() removed moves no
\* source in any later path-driven tick, also after new sources were added.
C12_DanglingPathsInert ==
  [][PathTick' =>
       \A k \in 1..Len(gaussians) :
         gaussians[k].id \in dangling =>
           /\ gaussians'[k].x = gaussians[k].x
           /\ gaussians'[k].y = gaussians[k].y]_vars

\* C13: clear() empties the source list and restarts the ids at 1 and
\* touches nothing else: the paths, the path cursors, the retained
\* clustering and the event log stay exactly as they were.
C13_ClearLeavesDependents ==
  [][last'.op = "new" =>
       /\ gaussians' = <<>>
       /\ next_id' = 1
       /\ paths' = paths
       /\ path_index' = path_index
       /\ prev_clusters' = prev_clusters
       /\ events' = events
       /\ <<width', height', spacing', distribution_type'>>
            = <<width, height, spacing, distribution_type>>]_vars

C13_Witness ==
  /\ last.op = "new"
  /\ gaussians = <<>> /\ next_id = 1
  /\ 1 \in DOMAIN paths /\ path_index[1] = 1
  /\ prev_clusters.present /\ Len(prev_clusters.clusters) = 2
  /\ Len(events) > 0

\* the sampling that ran last
Sampled == last.op = "sample"

\* the cells of an image, as <<row, column>> pairs
Cells(img) == {<<j, i>> \in (1..Len(img)) \X (1..(width * SuperSample)) : i <= Len(img[j])}

\* the largest kernel value any source has at the sample point (x, y)
KernelMax(x, y) ==
  LET vals == {dist_fn(distribution_type, x, y, gaussians[k]) : k \in 1..Len(gaussians)}
  IN CHOOSE v \in vals : \A w \in vals : w <= v

\* C14: for a non-empty source list every cell of the sampled field holds
\* the maximum over the sources of the selected kernel's value at the cell,
\* also where every source's value is negative.
C14_SampleIsMaxOverSources ==
  (Sampled /\ Len(gaussians) > 0) =>
    /\ Len(last.img) = height * SuperSample
    /\ \A j \in 1..Len(last.img) : Len(last.img[j]) = width * SuperSample
    /\ \A c \in Cells(last.img) :
         last.img[c[1]][c[2]]
           = KernelMax((c[2] - 1) * CellSize(TheScene), (c[1] - 1) * CellSize(TheScene))

\* a tick on a scene without sources whose snapshot could be written
EmptyTick ==
  last.op = "update" /\ last.io = "ok" /\ Len(last.before.gaussians) = 0

\* C15: with no sources, sampling gives a field that is zero in every cell,
\* clustering gives the empty clustering, and a tracking step emits no
\* event and raises nothing, with or without a retained clustering.
C15_EmptySceneIsQuiet ==
  /\ (Sampled /\ Len(gaussians) = 0) =>
       /\ Len(last.img) = height * SuperSample
       /\ \A j \in 1..Len(last.img) :
            last.img[j] = [i \in 1..(width * SuperSample) |-> 0]
  /\ (Clustered /\ Len(Given) = 0) => Curr = <<>>
  /\ EmptyTick =>
       /\ TickDone
       /\ Curr = <<>>
       /\ Det = <<>>
       /\ events = <<>>
       /\ prev_clusters = [present |-> TRUE, clusters |-> <<>>]

C15_Witness ==
  /\ EmptyTick /\ TickDone
  /\ last.used_prev.present /\ Len(Prev) = 2
  /\ Det = <<>>

\* C17: the event log only grows at its end: whatever runs (a tick, New, a
\* scenario replacing the scene, a timeline plot), the log before it is an
\* unchanged prefix of the log after it.
C17_EventLogAppendOnly ==
  [][/\ Len(events') >= Len(events)
     /\ SubSeq(events', 1, Len(events)) = events]_vars

C17_Witness ==
  /\ last.op = "plot"
  /\ Len(events) >= 3
  /\ events[1].time # events[Len(events)].time
  /\ \E k \in 1..Len(events) : events[k].type = "merge"

\* the stages of a tick, in the order the claim gives them
StageOrder ==
  <<"advection", "resample", "noise", "clustering", "correspondence",
    "persistence">>

\* C18: every tick runs advection, resampling, noise, clustering,
\* correspondence and persistence, in this order and all of them, before
\* the next tick starts; the clustering of a tick is that of the source
\* positions the advection of the same tick produced.
C18_TickRunsAllStagesInOrder ==
  [][last'.op = "update" =>
       /\ last'.stages = StageOrder
       /\ gaussians' = Advect(TheScene, selected_vector_field_type).scene.gaussians
       /\ last'.clusters_dict = umbrella_clusters_with_roots(gaussians')]_vars

\* width * spacing, in half world units
Extent(n, space) == (n * space) \div 5

\* C19: after a field-driven advection step with a field that has vectors,
\* every source lies inside [0, width * spacing) x [0, height * spacing),
\* whatever the grid, the spacing and the starting position.
C19_FieldStepStaysInGrid ==
  last.op = "field_move" =>
    \A k \in 1..Len(gaussians) :
      /\ 0 <= gaussians[k].x /\ gaussians[k].x < Extent(width, spacing)
      /\ 0 <= gaussians[k].y /\ gaussians[k].y < Extent(height, spacing)

\* C20: in a path-driven tick a source with a non-empty path that is less
\* than 0.5 from path[cursor] keeps its position and has its cursor advanced
\* by one, back to 0 past the last waypoint; any other such source keeps
\* its cursor and moves toward path[cursor] by exactly the path speed.
C20_PathTickStep ==
  [][(PathTick' /\ ~last'.advect_raised) =>
       /\ paths' = paths
       /\ \A k \in 1..Len(gaussians) :
            LET g == gaussians[k]
                h == gaussians'[k]
                cursor == IF g.id \in DOMAIN path_index THEN path_index[g.id] ELSE 0
            IN (g.id \in DOMAIN paths /\ Len(paths[g.id]) > 0) =>
                 LET n == Len(paths[g.id])
                     t == paths[g.id][cursor + 1]
                     dx == t[1] - g.x
                     dy == t[2] - g.y
                     mx == h.x - g.x
                     my == h.y - g.y
                 IN IF dx * dx + dy * dy < 1
                      THEN /\ path_index'[g.id] = (cursor + 1) % n
                           /\ mx = 0 /\ my = 0
                      ELSE /\ (IF g.id \in DOMAIN path_index'
                                 THEN path_index'[g.id] ELSE 0) = cursor
                           /\ mx * mx + my * my = 1
                           /\ mx * dy = my * dx
                           /\ mx * dx + my * dy > 0]_vars

C20_Witness ==
  /\ PathTick /\ ~last.advect_raised
  /\ Len(gaussians) = 2
  /\ gaussians[1].id = 1 /\ 1 \in DOMAIN paths
  /\ Len(paths[1]) = 3
  /\ <<gaussians[1].x, gaussians[1].y>> = paths[1][3]
  /\ path_index[1] = 0

\* the amplitude of the source of the list gs that carries the id
AmpOf(gs, id) == gs[CHOOSE k \in 1..Len(gs) : gs[k].id = id].amp

\* C27: in every clustering the root of each cluster has the greatest
\* amplitude of that cluster: no member has an amplitude strictly greater
\* than that of the source whose id labels the cluster, for every source
\* list and every list order.
C27_RootHasGreatestAmplitude ==
  Clustered =>
    \A c \in 1..Len(Curr) :
      \A m \in Members(Curr[c]) :
        AmpOf(Given, m) <= AmpOf(Given, Curr[c].root)

\* C29: when no clear and no scene replacement happened since the last
\* completed tracking step, the next completed step finds every previous
\* root's member list meeting that of at least one current root: every row
\* of the correspondence matrix holds a 1.
C29_NoSilentVanishWithoutClear ==
  [][(TickDone' /\ last'.used_prev.present /\ clears # "since_step") =>
       LET corr == correspondence_matrix_with_roots(last'.used_prev.clusters,
                                                    last'.clusters_dict)
       IN \A i \in 1..Len(corr.M) :
            \E j \in 1..Len(corr.M[i]) : corr.M[i][j] = 1]_vars

C29_Witness ==
  /\ TickDone /\ last.used_prev.present /\ clears = "before_step"
  /\ Len(Prev) = 1 /\ Len(Prev[1].members) = 1
  /\ Len(Curr) = 1 /\ Len(Curr[1].members) = 2
  /\ Curr[1].root # Prev[1].root

\* C30: the source list holds the ids 1, 2, ..., n in list order and the
\* next id to be assigned is n + 1, after every sequence of additions,
\* clears, scenario generations and ticks; a tick (advection, resampling)
\* changes no id and no list position.
C30_IdsAreListPositions ==
  [][/\ \A k \in 1..Len(gaussians') : gaussians'[k].id = k
     /\ next_id' = Len(gaussians') + 1
     /\ last'.op = "update" =>
          [k \in 1..Len(gaussians') |-> gaussians'[k].id]
            = [k \in 1..Len(gaussians) |-> gaussians[k].id]]_vars

C30_Witness ==
  /\ PathTick /\ ~last.advect_raised
  /\ clears = "since_step"
  /\ Len(gaussians) = 2
  /\ \E k \in 1..2 : gaussians[k].id \in DOMAIN paths
                       /\ <<gaussians[k].x, gaussians[k].y>> # <<22, 20>>

\* the path assigned to the k-th source, if it has one with waypoints
HasWaypoints(k) ==
  /\ gaussians[k].id \in DOMAIN paths
  /\ Len(paths[gaussians[k].id]) > 0

\* C22: path-following on an empty or a single-point path is a no-op and
\* not an error: a path-driven advection step leaves the position of every
\* source whose path has zero or one waypoint unchanged, wherever the
\* source is, and raises nothing.
C22_ShortPathIsNoOp ==
  [][last'.op = "path_move" =>
       \A k \in 1..Len(gaussians) :
         (gaussians[k].id \in DOMAIN paths /\ Len(paths[gaussians[k].id]) <= 1) =>
           /\ ~last'.advect_raised
           /\ gaussians'[k].x = gaussians[k].x
           /\ gaussians'[k].y = gaussians[k].y]_vars

\* C26: at the start of every path-driven advection step the stored cursor
\* of every source with a non-empty path is a valid index into that path,
\* however the steps interleave with path clicks, finished picks and
\* scenario generation.
C26_CursorValidAtTick ==
  [][last'.op = "path_move" =>
       \A k \in 1..Len(gaussians) :
         HasWaypoints(k) =>
           /\ 0 <= PathIndexGet(path_index, gaussians[k].id)
           /\ PathIndexGet(path_index, gaussians[k].id)
                < Len(paths[gaussians[k].id])]_vars

\* the timer keeps firing: a path-driven advection step that would change
\* something is eventually taken
FairPath == SpecPath /\ WF_vars(PathMove)

\* the k-th source has a path with a waypoint number i (0-based), the
\* cursor of the source is i and the source is within the threshold of it
AtWaypoint(k, i) ==
  LET g == gaussians[k]
      t == paths[g.id][i + 1]
      dx == t[1] - g.x
      dy == t[2] - g.y
  IN /\ PathIndexGet(path_index, g.id) = i
     /\ dx * dx + dy * dy < PathThreshold * PathThreshold

\* C21: the path loops for ever: once nothing but path-driven advection
\* steps happen, every source with a non-empty path reaches every waypoint
\* of it with the cursor on that waypoint, again and again; it never gets
\* stuck short of a waypoint or oscillates around one.
C21_PathLoopsForever ==
  <>[](last.op = "path_move") =>
    \A k \in 1..MaxSources : \A i \in 0..(MaxPathLen - 1) :
      []<>((k <= Len(gaussians) /\ HasWaypoints(k)
              /\ i < Len(paths[gaussians[k].id])) => AtWaypoint(k, i))

\* C23: in a path-driven tick every source with no entry in the path map
\* keeps its position and all its other fields, and gets no cursor,
\* whatever paths the other sources have.
C23_PathlessSourcesStay ==
  [][PathTick' =>
       \A k \in 1..Len(gaussians) :
         gaussians[k].id \notin DOMAIN paths =>
           /\ gaussians'[k] = gaussians[k]
           /\ gaussians[k].id \in DOMAIN path_index'
                <=> gaussians[k].id \in DOMAIN path_index]_vars

C23_Witness ==
  /\ PathTick /\ ~last.advect_raised
  /\ Len(gaussians) = 2
  /\ DOMAIN paths = {gaussians[1].id}
  /\ gaussians[1].x # gaussians[2].x
  /\ gaussians[2].id \notin DOMAIN path_index

\* the positions of the log that hold a birth event for the id
BirthsOf(id) ==
  {p \in 1..Len(events) : events[p].type = "birth" /\ events[p].id = id}

\* C28 as worded: on a scene that was never cleared or replaced the event
\* log holds at most one birth event for any root id.
C28_OneBirthPerRootId ==
  clears = "never" =>
    \A id \in Ids(gaussians) : Cardinality(BirthsOf(id)) <= 1

\* C28 amended: on a scene that was never cleared or replaced the event log
\* holds at most one birth event for any root id and tick time; an id that
\* stops being a root and is a root again later is born again.
C28_OneBirthPerRootIdAndStep ==
  clears = "never" =>
    \A id \in Ids(gaussians) :
      \A p, q \in BirthsOf(id) : events[p].time = events[q].time => p = q

C28_Witness ==
  /\ clears = "never"
  /\ TickDone
  /\ \E p, q \in BirthsOf(1) : events[p].time = 0 /\ events[q].time = 2
  /\ Cardinality(BirthsOf(2)) = 1

\* what the noise step that ran last was given
Noised == last.op = "noise"
NoiseInput == last.args.field

\* C24: range preservation: for every noise kind, amount and input field
\* every value of the field applyNoise returns lies between the minimum and
\* the maximum of the input field, and the field has the input's
\* dimensions.
C24_NoiseKeepsRange ==
  Noised =>
    /\ Len(last.img) = Len(NoiseInput)
    /\ \A j \in 1..Len(NoiseInput) :
         /\ Len(last.img[j]) = Len(NoiseInput[j])
         /\ \A i \in 1..Len(NoiseInput[j]) :
              /\ FieldMin(NoiseInput) <= last.img[j][i]
              /\ last.img[j][i] <= FieldMax(NoiseInput)

C24_Witness ==
  /\ Noised
  /\ last.args.noise_type = "Gaussian (White)"
  /\ FieldMin(NoiseInput) < FieldMax(NoiseInput)
  /\ \E j \in 1..Len(NoiseInput) : \E i \in 1..Len(NoiseInput[j]) :
       /\ NoiseInput[j][i] < FieldMax(NoiseInput)
       /\ last.img[j][i] = FieldMax(NoiseInput)
  /\ \E j \in 1..Len(NoiseInput) : \E i \in 1..Len(NoiseInput[j]) :
       /\ NoiseInput[j][i] > FieldMin(NoiseInput)
       /\ last.img[j][i] = FieldMin(NoiseInput)

\* C25: applyNoise with the kind None is the identity: it returns the input
\* field with every sample unchanged and performs no normalize or rescale
\* step on it.
C25_NoneIsIdentity ==
  (Noised /\ last.args.noise_type = "None") =>
    /\ last.img = NoiseInput
    /\ last.stages = <<>>

C25_Witness ==
  /\ Noised /\ last.args.noise_type = "None"
  /\ last.img = NoiseInput
  /\ apply_noise_to_scalar_field(NoiseInput, "Unknown", 0, 1).img # NoiseInput

====
